---- MODULE Spec2Model ----
(***************************************************************************)
(* Model of artem's src/util.rs: map_range, rgb_to_ansi,                   *)
(* calculate_dimensions and range.                                         *)
(*                                                                         *)
(* TLC's integers are 32-bit signed, while the program computes with u32   *)
(* (up to 4294967295), usize (64 bit) and f64 (53-bit significands).  All  *)
(* program integers that can exceed 2^31-1 are therefore held as natural   *)
(* numbers in little-endian limbs of 15 bits (<<>> is 0, no leading zero   *)
(* limb), and f64 is modelled bit-exactly on top of them: every f64        *)
(* operation computes the exact rational result and rounds it to nearest,  *)
(* ties to even, to a 53-bit significand with IEEE 754 binary64 exponent   *)
(* range, infinities, NaN and signed zeros.                                *)
(***************************************************************************)
EXTENDS Integers, Sequences, FiniteSets, TLC

VARIABLES
    fn,        \* which function of util.rs the behaviour exercises
    pc,        \* "call": arguments chosen, "ret": returned, "panic": panicked
    args,      \* the arguments of the call (a record)
    ret,       \* the returned value, once pc = "ret"
    \* range's iterator (the closure's captures and Take's counter)
    r_start,   \* the cursor captured by the closure
    step,      \* the step captured by the closure
    n,         \* Take's remaining count (usize)
    rets       \* every result of next() so far, in order

vars == <<fn, pc, args, ret, r_start, step, n, rets>>

----------------------------------------------------------------------------------
(* Natural numbers of any size: little-endian limbs in base 2^15, without  *)
(* leading zero limbs (<<>> is 0, <<32767, 32767, 3>> is 4294967295).      *)
(* TLC's integers have 32 bits, too few for u32, usize and the             *)
(* significands of f64.                                                    *)

Base == 2^15

MaxI(a, b) == IF a > b THEN a ELSE b
MinI(a, b) == IF a < b THEN a ELSE b

RECURSIVE BN(_)
\* The natural number i (a TLC integer) as limbs.
BN(i) == IF i = 0 THEN <<>> ELSE <<i % Base>> \o BN(i \div Base)

\* The index of the most significant non-zero limb (0 if there is none).
BTop(s) ==
    CHOOSE i \in 0..Len(s) :
        (i = 0 \/ s[i] # 0) /\ \A j \in (i + 1)..Len(s) : s[j] = 0

\* Drops leading zero limbs.
BNorm(s) == SubSeq(s, 1, BTop(s))

\* Limb i (1 is the least significant), 0 beyond the length.
BLimb(a, i) == IF i <= Len(a) THEN a[i] ELSE 0

\* The carry into limb i of a + b: a lower limb generates it and the limbs
\* between propagate it.
BCarry(a, b, i) ==
    \E j \in 1..(i - 1) :
        /\ BLimb(a, j) + BLimb(b, j) >= Base
        /\ \A k \in (j + 1)..(i - 1) : BLimb(a, k) + BLimb(b, k) = Base - 1

BAddLimb(a, b, i) ==
    (BLimb(a, i) + BLimb(b, i) + (IF BCarry(a, b, i) THEN 1 ELSE 0)) % Base

\* a + b
BAdd(a, b) ==
    IF a = <<>> THEN b
    ELSE IF b = <<>> THEN a
    ELSE BNorm([i \in 1..(MaxI(Len(a), Len(b)) + 1) |-> BAddLimb(a, b, i)])

\* The borrow from limb i of a - b.
BBorrow(a, b, i) ==
    \E j \in 1..(i - 1) :
        /\ BLimb(a, j) < BLimb(b, j)
        /\ \A k \in (j + 1)..(i - 1) : BLimb(a, k) = BLimb(b, k)

BSubLimb(a, b, i) ==
    (BLimb(a, i) - BLimb(b, i) - (IF BBorrow(a, b, i) THEN 1 ELSE 0)) % Base

\* a - b, for a >= b.
BSub(a, b) ==
    IF a = <<>> \/ b = <<>> THEN a
    ELSE BNorm([i \in 1..Len(a) |-> BSubLimb(a, b, i)])

\* The most significant limb in which a and b (of one length) differ.
BDiffTop(a, b) ==
    CHOOSE i \in 0..Len(a) :
        (i = 0 \/ a[i] # b[i]) /\ \A j \in (i + 1)..Len(a) : a[j] = b[j]

BCmpAt(a, b, i) == IF i = 0 THEN 0 ELSE IF a[i] < b[i] THEN -1 ELSE 1

\* -1, 0 or 1 as a < b, a = b or a > b.
BCmp(a, b) ==
    IF Len(a) < Len(b) THEN -1
    ELSE IF Len(a) > Len(b) THEN 1
    ELSE BCmpAt(a, b, BDiffTop(a, b))

BLt(a, b) == BCmp(a, b) < 0
BLe(a, b) == BCmp(a, b) <= 0

\* a * k for a limb-sized k (0 <= k < 2^15): the low halves of the limb
\* products plus their high halves one limb up.
BMulSmall(a, k) ==
    IF a = <<>> \/ k = 0 THEN <<>>
    ELSE IF k = 1 THEN a
    ELSE BAdd(BNorm([i \in 1..Len(a) |-> (a[i] * k) % Base]),
              BNorm(<<0>> \o [i \in 1..Len(a) |-> (a[i] * k) \div Base]))

\* b * d + rest * Base for a limb d.
BMulAdd(b, d, rest) ==
    IF rest = <<>> THEN BMulSmall(b, d)
    ELSE BAdd(BMulSmall(b, d), <<0>> \o rest)

RECURSIVE BMul(_, _)
\* a * b, one limb of a at a time.
BMul(a, b) ==
    IF a = <<>> \/ b = <<>> THEN <<>>
    ELSE BMulAdd(b, Head(a), BMul(Tail(a), b))

BOdd(a) == a # <<>> /\ a[1] % 2 = 1

BZeros(k) == [i \in 1..k |-> 0]

\* a * 2^k.
BShl(a, k) ==
    IF a = <<>> THEN <<>>
    ELSE BZeros(k \div 15) \o BMulSmall(a, 2^(k % 15))

\* floor(a / 2^k) for k < 15: each limb takes the low bits of the next.
BShrBits(a, k) ==
    BNorm([i \in 1..Len(a) |->
              (a[i] \div 2^k) + (BLimb(a, i + 1) % 2^k) * 2^(15 - k)])

\* floor(a / 2^k).
BShr(a, k) ==
    IF k \div 15 >= Len(a) THEN <<>>
    ELSE BShrBits(SubSeq(a, (k \div 15) + 1, Len(a)), k % 15)

\* The number of bits of a limb i (0 for 0).
BitLenSmall(i) == CHOOSE k \in 0..15 : i < 2^k /\ (k = 0 \/ 2^(k - 1) <= i)

\* The number of bits of a (0 for 0).
BitLen(a) == IF a = <<>> THEN 0 ELSE (Len(a) - 1) * 15 + BitLenSmall(a[Len(a)])

\* The number of trailing zero bits of a limb i > 0, and of a > 0.
TrailingZerosSmall(i) == CHOOSE k \in 0..14 : i % 2^k = 0 /\ i % 2^(k + 1) # 0
BLowest(a) == CHOOSE i \in 1..Len(a) : a[i] # 0 /\ \A j \in 1..(i - 1) : a[j] = 0
BTrailingZerosAt(a, i) == (i - 1) * 15 + TrailingZerosSmall(a[i])
BTrailingZeros(a) == BTrailingZerosAt(a, BLowest(a))

\* A limb of the quotient in the long division of r by b, where b's top limb
\* is at least Base / 2 and r < b * Base: the estimate from the top limbs is
\* the limb or exceeds it by at most 2.
BQuotEst(r, b) ==
    MinI(Base - 1,
         (BLimb(r, Len(b) + 1) * Base + BLimb(r, Len(b))) \div b[Len(b)])

BQuotFix(r, b, q) ==
    IF BLe(BMulSmall(b, q), r) THEN q
    ELSE IF BLe(BMulSmall(b, q - 1), r) THEN q - 1
    ELSE q - 2

BQuotLimb(r, b) == BQuotFix(r, b, BQuotEst(r, b))

\* One step of the long division: r is the running remainder with the next
\* limb of the dividend appended, qs the quotient limbs found so far.
BDivStepQ(r, b, qs, q) == << <<q>> \o qs, BSub(r, BMulSmall(b, q)) >>
BDivStep(r, b, qs) == BDivStepQ(r, b, qs, BQuotLimb(r, b))
BDivNext(d, b, hi) ==
    IF hi[2] = <<>> /\ d = 0 THEN << <<0>> \o hi[1], <<>> >>
    ELSE BDivStep(<<d>> \o hi[2], b, hi[1])

RECURSIVE BDivModR(_, _, _)
\* Long division, one limb of a at a time from the most significant: the
\* quotient's limbs from the i-th on (not normalised) and the remainder left
\* after them.  The Len(b) - 1 top limbs of a give no quotient limb.
BDivModR(a, b, i) ==
    IF i > Len(a) - Len(b) + 1 THEN << <<>>, SubSeq(a, MaxI(i, 1), Len(a)) >>
    ELSE BDivNext(a[i], b, BDivModR(a, b, i + 1))

\* The long division of a * 2^sh by b * 2^sh: the quotient is that of a by b,
\* the remainder is 2^sh times as large.
BDivModSh(qr, sh) == << BNorm(qr[1]), BShr(qr[2], sh) >>
BDivModAt(a, b, sh) == BDivModSh(BDivModR(BShl(a, sh), BShl(b, sh), 1), sh)

\* <<a div b, a mod b>> for b > 0.
BDivMod(a, b) ==
    IF a = <<>> THEN << <<>>, <<>> >>
    ELSE BDivModAt(a, b, 15 - BitLenSmall(b[Len(b)]))

BDiv(a, b) == BDivMod(a, b)[1]

----------------------------------------------------------------------------
(* f64: IEEE 754 binary64.  A value is NaN, an infinity, or                *)
(* (-1)^s * m * 2^e with m = 0 (a signed zero, e = 0) or m odd.            *)

FNaN == [k |-> "nan", s |-> 0, m |-> <<>>, e |-> 0]
FInf(s) == [k |-> "inf", s |-> s, m |-> <<>>, e |-> 0]
FZero(s) == [k |-> "fin", s |-> s, m |-> <<>>, e |-> 0]

FCanonAt(s, m, e, tz) == [k |-> "fin", s |-> s, m |-> BShr(m, tz), e |-> e + tz]

\* (-1)^s * m * 2^e with the significand made odd.
FCanon(s, m, e) ==
    IF m = <<>> THEN FZero(s) ELSE FCanonAt(s, m, e, BTrailingZeros(m))

\* (-1)^s * q * 2^E for a rounded significand q: zero, infinity on overflow
\* (above (2^53 - 1) * 2^971), or the value.
FPack(s, q, E) ==
    IF q = <<>> THEN FZero(s)
    ELSE IF BitLen(q) + E > 1024 THEN FInf(s)
    ELSE FCanon(s, q, E)

\* Rounds to nearest, ties to even: q is the floor of the significand and
\* half is -1, 0 or 1 as the discarded part is below, at or above one half.
FRoundHalf(s, q, half, E) ==
    IF half > 0 \/ (half = 0 /\ BOdd(q)) THEN FPack(s, BAdd(q, <<1>>), E)
    ELSE FPack(s, q, E)

\* qr = <<q, r>> with value = (q + r / d) * 2^E.
FRoundQR(s, qr, d, E) ==
    IF qr[2] = <<>> THEN FPack(s, qr[1], E)
    ELSE FRoundHalf(s, qr[1], BCmp(BAdd(qr[2], qr[2]), d), E)

\* floor(log2(num / den)) for num, den > 0, given t = BitLen(num) - BitLen(den).
FloorLog2At(num, den, t) ==
    IF BLe(BShl(den, MaxI(t, 0)), BShl(num, MaxI(0 - t, 0))) THEN t ELSE t - 1

FloorLog2(num, den) == FloorLog2At(num, den, BitLen(num) - BitLen(den))

\* (num / den) * 2^E rounded to a multiple of 2^E.
FRoundRatD(s, num, den, E) == FRoundQR(s, BDivMod(num, den), den, E)

\* (num / den) * 2^e rounded to a multiple of 2^E.
FRoundRatAt(s, num, den, e, E) ==
    IF E >= e THEN FRoundRatD(s, num, BShl(den, E - e), E)
    ELSE FRoundRatD(s, BShl(num, e - E), den, E)

\* The f64 nearest to (-1)^s * (num / den) * 2^e (num, den > 0), ties to
\* even: 53 significant bits, least exponent -1074 (subnormals), overflow
\* to infinity.
RoundRat(s, num, den, e) ==
    FRoundRatAt(s, num, den, e, MaxI(FloorLog2(num, den) - 52 + e, -1074))

\* <<floor(m / 2^sh), m mod 2^sh>>
BSplitQ(m, sh, q) == << q, BSub(m, BShl(q, sh)) >>
BSplit(m, sh) == IF sh = 0 THEN << m, <<>> >> ELSE BSplitQ(m, sh, BShr(m, sh))

FRoundDyadicAt(s, m, e, sh) ==
    FRoundQR(s, BSplit(m, sh), BShl(<<1>>, sh), e + sh)

\* The f64 nearest to (-1)^s * m * 2^e, ties to even.
RoundDyadic(s, m, e) ==
    IF m = <<>> THEN FZero(s)
    ELSE FRoundDyadicAt(s, m, e, MaxI(MaxI(BitLen(m) - 53, -1074 - e), 0))

FNeg(x) == [x EXCEPT !.s = 1 - x.s]

ExactAddAligned(xs, mx, ys, my, e, c) ==
    IF xs = ys THEN <<xs, BAdd(mx, my), e>>
    ELSE IF c = 0 THEN <<0, <<>>, 0>>
    ELSE IF c > 0 THEN <<xs, BSub(mx, my), e>>
    ELSE <<ys, BSub(my, mx), e>>

ExactAddM(xs, mx, ys, my, e) == ExactAddAligned(xs, mx, ys, my, e, BCmp(mx, my))

ExactAddE(x, y, e) ==
    ExactAddM(x.s, BShl(x.m, x.e - e), y.s, BShl(y.m, y.e - e), e)

\* The exact sum of two finite values, as <<s, m, e>>.
ExactAdd(x, y) == ExactAddE(x, y, MinI(x.e, y.e))

\* The f64 nearest to the exact value z = <<s, m, e>>.
RoundExact(z) == RoundDyadic(z[1], z[2], z[3])

\* 2^(FTopBit(x) - 1) <= |x| < 2^FTopBit(x), for a finite x # 0.
FTopBit(x) == x.e + BitLen(x.m)

\* 0 < |y| < 2^-64 * |x|: x + y lies within a quarter of the distance from
\* x to its neighbours, so it rounds to x.
FNegligible(x, y) ==
    x.m # <<>> /\ y.m # <<>> /\ FTopBit(y) < FTopBit(x) - 64

\* x + y
FAdd(x, y) ==
    IF x.k = "nan" \/ y.k = "nan" THEN FNaN
    ELSE IF x.k = "inf" /\ y.k = "inf" THEN (IF x.s = y.s THEN x ELSE FNaN)
    ELSE IF x.k = "inf" THEN x
    ELSE IF y.k = "inf" THEN y
    ELSE IF FNegligible(x, y) THEN x
    ELSE IF FNegligible(y, x) THEN y
    ELSE RoundExact(ExactAdd(x, y))

\* x - y
FSub(x, y) == FAdd(x, FNeg(y))

\* The exact product of two finite values, as <<s, m, e>>.
ExactMul(x, y) == <<(x.s + y.s) % 2, BMul(x.m, y.m), x.e + y.e>>

\* x * y
FMul(x, y) ==
    LET s == (x.s + y.s) % 2
    IN  IF x.k = "nan" \/ y.k = "nan" THEN FNaN
        ELSE IF x.k = "inf" \/ y.k = "inf"
             THEN (IF (x.k = "fin" /\ x.m = <<>>) \/ (y.k = "fin" /\ y.m = <<>>)
                   THEN FNaN ELSE FInf(s))
        ELSE RoundExact(ExactMul(x, y))

\* x / y
FDiv(x, y) ==
    LET s == (x.s + y.s) % 2
    IN  IF x.k = "nan" \/ y.k = "nan" THEN FNaN
        ELSE IF x.k = "inf" THEN (IF y.k = "inf" THEN FNaN ELSE FInf(s))
        ELSE IF y.k = "inf" THEN FZero(s)
        ELSE IF y.m = <<>> THEN (IF x.m = <<>> THEN FNaN ELSE FInf(s))
        ELSE IF x.m = <<>> THEN FZero(s)
        ELSE RoundRat(s, x.m, y.m, x.e - y.e)

\* x == y (f64's PartialEq: NaN equals nothing, -0.0 equals 0.0)
FEq(x, y) ==
    /\ x.k # "nan"
    /\ y.k # "nan"
    /\ \/ x = y
       \/ x.k = "fin" /\ y.k = "fin" /\ x.m = <<>> /\ y.m = <<>>

FFloorIp(s, ip) == IF s = 0 THEN FCanon(0, ip, 0) ELSE FCanon(1, BAdd(ip, <<1>>), 0)

\* f64::floor (a finite value with e < 0 has an odd significand, so it is
\* no integer)
FFloor(x) ==
    IF x.k # "fin" \/ x.e >= 0 THEN x ELSE FFloorIp(x.s, BShr(x.m, 0 - x.e))

FCeilIp(s, ip) == IF s = 0 THEN FCanon(0, BAdd(ip, <<1>>), 0) ELSE FCanon(1, ip, 0)

\* f64::ceil
FCeil(x) ==
    IF x.k # "fin" \/ x.e >= 0 THEN x ELSE FCeilIp(x.s, BShr(x.m, 0 - x.e))

U32Max == <<32767, 32767, 3>>

\* `x as u32`: truncates toward zero and saturates; NaN gives 0.
AsU32(x) ==
    IF x.k = "nan" THEN <<>>
    ELSE IF x.s = 1 THEN <<>>
    ELSE IF x.k = "inf" THEN U32Max
    ELSE IF BitLen(x.m) + x.e > 32 THEN U32Max
    ELSE IF x.e >= 0 THEN BShl(x.m, x.e)
    ELSE BShr(x.m, 0 - x.e)

\* `u as f64` for a u32 u: exact.
AsF64(u) == FCanon(0, u, 0)

----------------------------------------------------------------------------
(* u32 arithmetic.                                                         *)

\* u32::saturating_sub
U32SaturatingSub(a, b) == IF BLt(a, b) THEN <<>> ELSE BSub(a, b)

\* u32::wrapping_add
U32Wrap(x) == IF BLe(x, U32Max) THEN x ELSE BSub(x, BAdd(U32Max, <<1>>))
U32WrappingAdd(a, b) == U32Wrap(BAdd(a, b))

\* A faulty variant of U32Div: a division by zero gives 0 instead of a panic.
U32DivZeroIsZero(a, b) ==
    [panic |-> FALSE, v |-> IF b = <<>> THEN <<>> ELSE BDiv(a, b)]

\* `a / b` on u32: panics ("attempt to divide by zero") when b = 0, in every
\* build profile.
U32Div(a, b) ==
    IF b = <<>> THEN [panic |-> TRUE, v |-> <<>>]
    ELSE [panic |-> FALSE, v |-> BDiv(a, b)]

----------------------------------------------------------------------------
(* calculate_dimensions                                                    *)

Panicked == [panic |-> TRUE, v |-> <<>>]
Returned(v) == [panic |-> FALSE, v |-> v]

\* A faulty variant of ClampToTarget: the comparison reversed (max, not min).
ClampToTargetMax(target_size, dim) ==
    IF BLt(target_size, dim) THEN dim ELSE target_size

\* `if width > target_size { target_size } else { width }`, and the same for
\* height.
ClampToTarget(target_size, dim) ==
    IF BLt(target_size, dim) THEN target_size ELSE dim

\* A faulty variant of RemoveBorder: a wrapping subtraction.
RemoveBorderWrapping(columns, border) ==
    IF border
    THEN (IF BLt(columns, <<2>>)
          THEN BSub(BAdd(columns, BAdd(U32Max, <<1>>)), <<2>>)
          ELSE BSub(columns, <<2>>))
    ELSE columns

\* `if border { columns = columns.saturating_sub(2); }`
RemoveBorder(columns, border) ==
    IF border THEN U32SaturatingSub(columns, <<2>>) ELSE columns

\* A faulty variant of TileHeight: the scale multiplied instead of divided.
TileHeightMul(tile_width, scale) ==
    AsU32(FFloor(FMul(AsF64(tile_width), scale)))

\* `(tile_width as f64 / scale).floor() as u32`
TileHeight(tile_width, scale) ==
    AsU32(FFloor(FDiv(AsF64(tile_width), scale)))

\* `(tile_height as f64 * scale).ceil() as u32`
TileWidth(tile_height, scale) ==
    AsU32(FCeil(FMul(AsF64(tile_height), scale)))

\* `let rows = height / tile_height; (columns, rows, tile_width, tile_height)`
WidthRows(columns, tile_width, tile_height, rows) ==
    IF rows.panic THEN Panicked
    ELSE Returned(<<columns, rows.v, tile_width, tile_height>>)

WidthTileHeight(height, columns, tile_width, tile_height) ==
    WidthRows(columns, tile_width, tile_height, U32Div(height, tile_height))

\* `let tile_width = width / columns; let tile_height = ...;`
WidthTiles(height, scale, columns, tw) ==
    IF tw.panic THEN Panicked
    ELSE WidthTileHeight(height, columns, tw.v, TileHeight(tw.v, scale))

WidthColumns(height, width, scale, columns) ==
    WidthTiles(height, scale, columns, U32Div(width, columns))

\* The ResizingDimension::Width arm.
calculate_dimensions_Width(target_size, height, width, scale, border) ==
    WidthColumns(height, width, scale,
                 RemoveBorder(ClampToTarget(target_size, width), border))

\* `let mut columns = width / tile_width; if border {...}; (columns, rows, ..)`
HeightColumns(border, rows, tile_width, tile_height, cols) ==
    IF cols.panic THEN Panicked
    ELSE Returned(<<RemoveBorder(cols.v, border), rows, tile_width, tile_height>>)

HeightTileWidth(width, border, rows, tile_width, tile_height) ==
    HeightColumns(border, rows, tile_width, tile_height, U32Div(width, tile_width))

\* `let tile_height = height / rows; let tile_width = ...;`
HeightTiles(width, scale, border, rows, th) ==
    IF th.panic THEN Panicked
    ELSE HeightTileWidth(width, border, rows, TileWidth(th.v, scale), th.v)

HeightRows(height, width, scale, border, rows) ==
    HeightTiles(width, scale, border, rows, U32Div(height, rows))

\* The ResizingDimension::Height arm.
calculate_dimensions_Height(target_size, height, width, scale, border) ==
    HeightRows(height, width, scale, border, ClampToTarget(target_size, height))

calculate_dimensions(target_size, height, width, scale, border, dimension) ==
    IF dimension = "Width"
    THEN calculate_dimensions_Width(target_size, height, width, scale, border)
    ELSE calculate_dimensions_Height(target_size, height, width, scale, border)

----------------------------------------------------------------------------
(* The calls of calculate_dimensions.                                      *)

\* The sizes 0..MaxSmall are tried beside the sizes of the tests.
MaxSmall == 3

\* u32 values for target_size, height and width: the small ones, those of
\* the tests (100, 119, 512) and u32::MAX.
Sizes == {BN(i) : i \in 0..MaxSmall} \cup {BN(100), BN(512), U32Max}
Targets == Sizes \cup {BN(119)}

\* f64 values for scale: 0.42 (the tests' scale; the f64 nearest to 0.42 is
\* 7566047373982433 * 2^-54), 2.0, 2^-10, 0.0, -0.0, -1.0, +infinity, NaN.
Scale042 == [k |-> "fin", s |-> 0, m |-> <<31457, 23592, 1310, 215>>, e |-> -54]
ScaleTwo == [k |-> "fin", s |-> 0, m |-> <<1>>, e |-> 1]
ScaleTiny == [k |-> "fin", s |-> 0, m |-> <<1>>, e |-> -10]
ScaleNegOne == [k |-> "fin", s |-> 1, m |-> <<1>>, e |-> 0]
Scales ==
    {Scale042, ScaleTwo, ScaleTiny, FZero(0), FZero(1), ScaleNegOne, FInf(0), FNaN}

DimArgs ==
    [target_size : Targets, height : Sizes, width : Sizes, scale : Scales,
     border : BOOLEAN, dimension : {"Width", "Height"}]

NoIter == <<>>

InitDim ==
    /\ fn = "calculate_dimensions"
    /\ pc = "call"
    /\ args \in DimArgs
    /\ ret = <<>>
    /\ r_start = NoIter /\ step = NoIter /\ n = NoIter /\ rets = <<>>

\* What a call leaves behind: the tuple, or a panic.
Outcome(r) ==
    /\ pc' = IF r.panic THEN "panic" ELSE "ret"
    /\ ret' = r.v
    /\ UNCHANGED <<fn, args, r_start, step, n, rets>>

\* calculate_dimensions(.., ResizingDimension::Width)
CalcWidth ==
    /\ fn = "calculate_dimensions"
    /\ pc = "call"
    /\ args.dimension = "Width"
    /\ Outcome(calculate_dimensions_Width(args.target_size, args.height,
                                          args.width, args.scale, args.border))

\* calculate_dimensions(.., ResizingDimension::Height)
CalcHeight ==
    /\ fn = "calculate_dimensions"
    /\ pc = "call"
    /\ args.dimension = "Height"
    /\ Outcome(calculate_dimensions_Height(args.target_size, args.height,
                                           args.width, args.scale, args.border))

NextDim == CalcWidth \/ CalcHeight

SpecDim == InitDim /\ [][NextDim]_vars

----------------------------------------------------------------------------
(* map_range                                                               *)

\* A faulty variant of map_range: the divisor taken from the wrong range
\* (from_range.1 - to_range.0).
map_range_wrong_divisor(from_range, to_range, value) ==
    FAdd(to_range[1],
         FDiv(FMul(FSub(value, from_range[1]), FSub(to_range[2], to_range[1])),
              FSub(from_range[2], to_range[1])))

\* to_range.0 + (value - from_range.0) * (to_range.1 - to_range.0)
\*            / (from_range.1 - from_range.0)
map_range(from_range, to_range, value) ==
    FAdd(to_range[1],
         FDiv(FMul(FSub(value, from_range[1]), FSub(to_range[2], to_range[1])),
              FSub(from_range[2], from_range[1])))

\* A small integer as an f64.
F(i) == IF i < 0 THEN FNeg(AsF64(BN(0 - i))) ELSE AsF64(BN(i))

\* 0.1 (the f64 nearest to it, 3602879701896397 * 2^-55) and f64::MAX.
FTenth == [k |-> "fin", s |-> 0, m |-> <<19661, 6553, 13107, 102>>, e |-> -55]
FMax == [k |-> "fin", s |-> 0, m |-> <<32767, 32767, 32767, 255>>, e |-> 971]

\* The range ends 0..MaxEnd are tried beside those of the tests.
MaxEnd == 1

FromEnds == {F(i) : i \in 0..MaxEnd} \cup {F(10)}
ToEnds == {F(i) : i \in 0..MaxEnd} \cup {F(20), FTenth, FMax, FNeg(FMax)}
\* The values of the tests (2, 21, -1) beside the ends of from_range.
TestValues == {F(2), F(21), F(-1)}

MapArgs ==
    {a \in [from_range : FromEnds \X FromEnds, to_range : ToEnds \X ToEnds,
            value : FromEnds \cup TestValues] :
        a.value \in {a.from_range[1], a.from_range[2]} \cup TestValues}

InitMap ==
    /\ fn = "map_range"
    /\ pc = "call"
    /\ args \in MapArgs
    /\ ret = <<>>
    /\ r_start = NoIter /\ step = NoIter /\ n = NoIter /\ rets = <<>>

\* map_range returns (f64 arithmetic never panics).
CallMapRange ==
    /\ fn = "map_range"
    /\ pc = "call"
    /\ pc' = "ret"
    /\ ret' = map_range(args.from_range, args.to_range, args.value)
    /\ UNCHANGED <<fn, args, r_start, step, n, rets>>

NextMap == CallMapRange

SpecMap == InitMap /\ [][NextMap]_vars

----------------------------------------------------------------------------
(* rgb_to_ansi                                                             *)

I32Max == 2147483647

\* vga_colors[index]; the source's index 0 is 1 here.
vga_colors ==
    << <<0, 0, 0>>, <<170, 0, 0>>, <<0, 170, 0>>, <<170, 85, 0>>,
       <<0, 0, 170>>, <<170, 0, 170>>, <<0, 170, 170>>, <<170, 170, 170>>,
       <<128, 128, 128>>, <<255, 0, 0>>, <<0, 255, 0>>, <<255, 255, 0>>,
       <<0, 0, 255>>, <<255, 0, 255>>, <<0, 255, 255>>, <<255, 255, 255>> >>

Sq(x) == x * x

\* (r - vga_color[0]).pow(2) + (g - vga_color[1]).pow(2) + (b - vga_color[2]).pow(2)
\* in i32: at most 3 * 255^2, so no overflow.
Distance(r, g, b, vga_color) ==
    Sq(r - vga_color[1]) + Sq(g - vga_color[2]) + Sq(b - vga_color[3])

\* A faulty variant of IsSmaller: `<=`, so that a later entry wins a tie.
IsSmallerOrEqual(distance, smallest_distance) == distance <= smallest_distance

\* `if distance < smallest_distance`
IsSmaller(distance, smallest_distance) == distance < smallest_distance

RECURSIVE FindNearest(_, _, _, _, _, _)
\* One iteration of the loop for the source's index, with the distance.
LoopBody(r, g, b, index, smallest_distance, smallest_distance_index, distance) ==
    IF IsSmaller(distance, smallest_distance)
    THEN FindNearest(r, g, b, index + 1, distance, index)
    ELSE FindNearest(r, g, b, index + 1, smallest_distance, smallest_distance_index)

\* The loop over vga_colors from the source's index on; the result is
\* <<smallest_distance, smallest_distance_index>> after the loop.
FindNearest(r, g, b, index, smallest_distance, smallest_distance_index) ==
    IF index = Len(vga_colors) THEN <<smallest_distance, smallest_distance_index>>
    ELSE LoopBody(r, g, b, index, smallest_distance, smallest_distance_index,
                  Distance(r, g, b, vga_colors[index + 1]))

\* `match smallest_distance_index { 0 => input.black(), ... _ => input.normal() }`
MatchColor(smallest_distance_index) ==
    CASE smallest_distance_index = 0 -> "black"
      [] smallest_distance_index = 1 -> "red"
      [] smallest_distance_index = 2 -> "green"
      [] smallest_distance_index = 3 -> "yellow"
      [] smallest_distance_index = 4 -> "blue"
      [] smallest_distance_index = 5 -> "magenta"
      [] smallest_distance_index = 6 -> "cyan"
      [] smallest_distance_index = 7 -> "white"
      [] smallest_distance_index = 8 -> "bright_black"
      [] smallest_distance_index = 9 -> "bright_red"
      [] smallest_distance_index = 10 -> "bright_green"
      [] smallest_distance_index = 11 -> "bright_yellow"
      [] smallest_distance_index = 12 -> "bright_blue"
      [] smallest_distance_index = 13 -> "bright_magenta"
      [] smallest_distance_index = 14 -> "bright_cyan"
      [] smallest_distance_index = 15 -> "bright_white"
      [] OTHER -> "normal"

\* The ColoredString, with the loop's locals as they are at the match.
Colored(input, nearest) ==
    [input |-> input, fgcolor |-> MatchColor(nearest[2]),
     smallest_distance |-> nearest[1], smallest_distance_index |-> nearest[2]]

rgb_to_ansi(input, r, g, b) ==
    Colored(input, FindNearest(r, g, b, 0, I32Max, 7))

\* Channel values: every ChannelStride-th u8, the channel values of the
\* palette and of the tests, and the values at and around the midpoints
\* between palette channels, where ties and the nearest entry change.
ChannelStride == 32

Channels ==
    {c \in 0..255 : c % ChannelStride = 0}
        \cup {0, 85, 128, 170, 255} \cup {88} \cup {42, 43, 64, 127, 149, 212, 213}

RgbArgs == [input : {"input"}, r : Channels, g : Channels, b : Channels]

InitRgb ==
    /\ fn = "rgb_to_ansi"
    /\ pc = "call"
    /\ args \in RgbArgs
    /\ ret = <<>>
    /\ r_start = NoIter /\ step = NoIter /\ n = NoIter /\ rets = <<>>

CallRgbToAnsi ==
    /\ fn = "rgb_to_ansi"
    /\ pc = "call"
    /\ pc' = "ret"
    /\ ret' = rgb_to_ansi(args.input, args.r, args.g, args.b)
    /\ UNCHANGED <<fn, args, r_start, step, n, rets>>

NextRgb == CallRgbToAnsi

SpecRgb == InitRgb /\ [][NextRgb]_vars

----------------------------------------------------------------------------
(* range                                                                   *)

\* 2^64: usize is 64 bits wide (a 64-bit target).
UsizeModulus == BShl(<<1>>, 64)

\* A faulty variant of TakeCount: one element too many.
TakeCountPlusOne(start, end, overflow_checks) ==
    IF BLt(end, start)
    THEN (IF overflow_checks THEN Panicked
          ELSE Returned(BSub(BAdd(end, UsizeModulus), start)))
    ELSE Returned(BAdd(BSub(end, start), <<1>>))

\* `end as usize - start as usize`: for end < start the subtraction
\* overflows, which panics ("attempt to subtract with overflow") in a build
\* with overflow checks (debug) and wraps around modulo 2^64 in a build
\* without (release).
TakeCount(start, end, overflow_checks) ==
    IF BLt(end, start)
    THEN (IF overflow_checks THEN Panicked
          ELSE Returned(BSub(BAdd(end, UsizeModulus), start)))
    ELSE Returned(BSub(end, start))

\* A faulty variant of FirstValue: the reverse iteration starts at end.
FirstValueEnd(start, end, rev) == IF rev THEN end ELSE start

\* `if rev { (end.saturating_sub(1), ..) } else { (start, ..) }`
FirstValue(start, end, rev) ==
    IF rev THEN U32SaturatingSub(end, <<1>>) ELSE start

\* `if rev { (.., u32::max_value()) } else { (.., 1) }`
Step(rev) == IF rev THEN U32Max ELSE <<1>>

\* Option<u32>
Some(v) == [some |-> TRUE, v |-> v]
None == [some |-> FALSE, v |-> <<>>]

\* The values 0..MaxRange are tried for start and end, beside u32::MAX - 1
\* and u32::MAX.
MaxRange == 3

\* next() is called at most MaxCalls times on an iterator.
MaxCalls == 5

RangeEnds == {BN(i) : i \in 0..MaxRange} \cup {BSub(U32Max, <<1>>), U32Max}

\* overflow_checks is the build profile's setting, not an argument.
RangeArgs ==
    [start : RangeEnds, end : RangeEnds, rev : BOOLEAN, overflow_checks : BOOLEAN]

InitRange ==
    /\ fn = "range"
    /\ pc = "call"
    /\ args \in RangeArgs
    /\ ret = <<>>
    /\ r_start = NoIter /\ step = NoIter /\ n = NoIter /\ rets = <<>>

\* The iterator as constructed, or the panic of the count's subtraction.
Construct(count) ==
    /\ pc' = IF count.panic THEN "panic" ELSE "iter"
    /\ r_start' = FirstValue(args.start, args.end, args.rev)
    /\ step' = Step(args.rev)
    /\ n' = count.v
    /\ UNCHANGED <<fn, args, ret, rets>>

\* range(start, end, rev)
RangeNew ==
    /\ fn = "range"
    /\ pc = "call"
    /\ Construct(TakeCount(args.start, args.end, args.overflow_checks))

\* Take::next over repeat_with's closure: while the count is not 0 it is
\* decremented and the closure runs (`let tmp = r_start; r_start =
\* r_start.wrapping_add(step); tmp`); at 0 the result is None and the
\* closure does not run.
IterNext ==
    /\ fn = "range"
    /\ pc = "iter"
    /\ Len(rets) < MaxCalls
    /\ IF n # <<>>
       THEN /\ n' = BSub(n, <<1>>)
            /\ r_start' = U32WrappingAdd(r_start, step)
            /\ rets' = Append(rets, Some(r_start))
       ELSE /\ rets' = Append(rets, None)
            /\ UNCHANGED <<n, r_start>>
    /\ UNCHANGED <<fn, pc, args, ret, step>>

NextRange == RangeNew \/ IterNext

SpecRange == InitRange /\ [][NextRange]_vars

----------------------------------------------------------------------------
(* The algorithm of calculate_dimensions as the specification words it,    *)
(* in exact arithmetic on the scale's exact value (no f64 rounding).       *)

SpecMin(a, b) == IF BLe(a, b) THEN a ELSE b
SpecMinusTwo(c) == IF BLe(c, <<2>>) THEN <<>> ELSE BSub(c, <<2>>)
SpecBorder(c, border) == IF border THEN SpecMinusTwo(c) ELSE c
SpecSaturate(x) == IF BLe(x, U32Max) THEN x ELSE U32Max

Undefined == [defined |-> FALSE, v |-> <<>>]
Defined(v) == [defined |-> TRUE, v |-> v]

\* floor(tile_width / scale) as a u32 (tile_width > 0): infinity and every
\* value above u32::MAX become u32::MAX; undefined when not positive.
SpecFloorDiv(tile_width, scale) ==
    IF scale.k = "nan" \/ scale.s = 1 THEN Undefined
    ELSE IF scale.k = "inf" THEN Defined(<<>>)
    ELSE IF scale.m = <<>> THEN Defined(U32Max)
    ELSE IF scale.e < 0
         THEN Defined(SpecSaturate(BDiv(BShl(tile_width, 0 - scale.e), scale.m)))
    ELSE Defined(BDiv(tile_width, BShl(scale.m, scale.e)))

\* ceil(tile_height * scale) as a u32 (tile_height > 0), likewise.
SpecCeilMul(tile_height, scale) ==
    IF scale.k = "nan" \/ scale.s = 1 THEN Undefined
    ELSE IF scale.k = "inf" THEN Defined(U32Max)
    ELSE IF scale.m = <<>> THEN Defined(<<>>)
    ELSE IF scale.e < 0
         THEN Defined(SpecSaturate(
                  BShr(BAdd(BMul(tile_height, scale.m),
                            BSub(BShl(<<1>>, 0 - scale.e), <<1>>)),
                       0 - scale.e)))
    ELSE IF BitLen(scale.m) + scale.e > 32 THEN Defined(U32Max)
    ELSE Defined(SpecSaturate(BMul(tile_height, BShl(scale.m, scale.e))))

SpecWidth(a) ==
    LET columns == SpecBorder(SpecMin(a.target_size, a.width), a.border)
    IN  IF columns = <<>> THEN Undefined
        ELSE LET tile_width  == BDiv(a.width, columns)
                 tile_height == SpecFloorDiv(tile_width, a.scale)
             IN  IF ~tile_height.defined \/ tile_height.v = <<>> THEN Undefined
                 ELSE Defined(<<columns, BDiv(a.height, tile_height.v),
                                tile_width, tile_height.v>>)

SpecHeight(a) ==
    LET rows == SpecMin(a.target_size, a.height)
    IN  IF rows = <<>> THEN Undefined
        ELSE LET tile_height == BDiv(a.height, rows)
                 tile_width  == SpecCeilMul(tile_height, a.scale)
             IN  IF ~tile_width.defined \/ tile_width.v = <<>> THEN Undefined
                 ELSE Defined(<<SpecBorder(BDiv(a.width, tile_width.v), a.border),
                                rows, tile_width.v, tile_height>>)

SpecAlgorithm(a) == IF a.dimension = "Width" THEN SpecWidth(a) ELSE SpecHeight(a)

DimCall(t, h, w, sc, border, d) ==
    [target_size |-> BN(t), height |-> BN(h), width |-> BN(w), scale |-> sc,
     border |-> border, dimension |-> d]

Tuple(c, r, tw, th) == <<BN(c), BN(r), BN(tw), BN(th)>>

----------------------------------------------------------------------------
(* Claims about calculate_dimensions, under SpecDim.                       *)

\* C1: whenever calculate_dimensions returns, the tuple (columns, rows,
\* tile_width, tile_height) is the one of the specification's algorithm for
\* the selected axis (min, border's saturating minus 2, integer division,
\* floor(tile_width / scale) on Width, ceil(tile_height * scale) on Height);
\* (100, 512, 512, 0.42, false) gives (100, 46, 5, 11) on Width and
\* (170, 100, 3, 5) on Height, and 119 gives (119, 56, 4, 9) on Width.
C1_ReturnsSpecAlgorithm ==
    (fn = "calculate_dimensions" /\ pc = "ret") =>
        /\ SpecAlgorithm(args).defined
        /\ ret = SpecAlgorithm(args).v
        /\ args = DimCall(100, 512, 512, Scale042, FALSE, "Width")
              => ret = Tuple(100, 46, 5, 11)
        /\ args = DimCall(100, 512, 512, Scale042, FALSE, "Height")
              => ret = Tuple(170, 100, 3, 5)
        /\ args = DimCall(119, 512, 512, Scale042, FALSE, "Width")
              => ret = Tuple(119, 56, 4, 9)

C1_Witness ==
    /\ pc = "ret"
    /\ args = DimCall(100, 512, 512, Scale042, FALSE, "Height")
    /\ ret = Tuple(170, 100, 3, 5)

ZeroSize(a) ==
    \/ a.target_size = <<>>
    \/ a.dimension = "Width" /\ a.width = <<>>
    \/ a.dimension = "Height" /\ a.height = <<>>

\* C2: with target_size = 0, or width = 0 on the Width axis, or height = 0 on
\* the Height axis, the call panics whatever the other arguments are: no tuple
\* is returned.
C2_ZeroSizePanics ==
    (fn = "calculate_dimensions" /\ pc # "call" /\ ZeroSize(args)) => pc = "panic"

C2_Witness ==
    /\ pc = "panic"
    /\ args.target_size = BN(100)
    /\ args.dimension = "Height"
    /\ args.height = <<>>
    /\ args.width = BN(512)
    /\ args.scale = Scale042

\* What the same call returns without the border.
WithoutBorder(a) ==
    calculate_dimensions(a.target_size, a.height, a.width, a.scale, FALSE,
                         a.dimension)

\* C7 (as claimed): whenever the call with border = false returns columns = c,
\* the same call with border = true returns columns = max(c - 2, 0).
C7_BorderReturnsColumnsMinusTwo ==
    (fn = "calculate_dimensions" /\ pc # "call" /\ args.border
        /\ ~WithoutBorder(args).panic) =>
        /\ pc = "ret"
        /\ ret[1] = SpecMinusTwo(WithoutBorder(args).v[1])

\* The column count of the Width axis, before the division by it.
WidthColumnCount(a) == SpecBorder(SpecMin(a.target_size, a.width), a.border)

IsZeroScale(sc) == sc.k = "fin" /\ sc.m = <<>>

\* C8 (as claimed): on the Width axis with scale = 0 (taken as +0.0, the 0f64
\* of the tests), target_size > 0, width > 0 and a non-zero column count, the
\* call returns tile_height = 4294967295 and rows = 0, for every height.
C8_ScaleZeroRowsZero ==
    (/\ fn = "calculate_dimensions" /\ pc # "call"
     /\ args.dimension = "Width" /\ args.scale = FZero(0)
     /\ args.target_size # <<>> /\ args.width # <<>>
     /\ WidthColumnCount(args) # <<>>) =>
        /\ pc = "ret"
        /\ ret[4] = U32Max
        /\ ret[2] = <<>>

\* C8 (amended): on the Width axis with scale = +0.0, target_size > 0,
\* width > 0 and a non-zero column count, the call returns tile_height =
\* 4294967295, and rows = 0 for every height below 4294967295 and rows = 1 for
\* height = 4294967295; with scale = -0.0 (which also equals 0) the quotient
\* is -infinity, tile_height is 0 and the call panics.
C8_PositiveZeroScaleSaturates ==
    (/\ fn = "calculate_dimensions" /\ pc # "call"
     /\ args.dimension = "Width" /\ IsZeroScale(args.scale)
     /\ args.target_size # <<>> /\ args.width # <<>>
     /\ WidthColumnCount(args) # <<>>) =>
        IF args.scale.s = 0
        THEN /\ pc = "ret"
             /\ ret[4] = U32Max
             /\ ret[2] = IF args.height = U32Max THEN <<1>> ELSE <<>>
             /\ args = DimCall(100, 512, 512, FZero(0), FALSE, "Width")
                   => ret = <<BN(100), <<>>, BN(5), U32Max>>
             /\ args = DimCall(100, 512, 512, FZero(0), TRUE, "Width")
                   => ret = <<BN(98), <<>>, BN(5), U32Max>>
        ELSE pc = "panic"

C8_Witness ==
    /\ pc = "ret"
    /\ args.dimension = "Width"
    /\ args.scale = FZero(0)
    /\ args.height = U32Max
    /\ args.border
    /\ ret = <<BN(98), <<1>>, BN(5), U32Max>>

\* The tile dimension the scale gives is zero (or not positive).
ZeroTile(a) ==
    IF a.dimension = "Width"
    THEN /\ WidthColumnCount(a) # <<>>
         /\ SpecFloorDiv(BDiv(a.width, WidthColumnCount(a)), a.scale).v = <<>>
    ELSE /\ SpecMin(a.target_size, a.height) # <<>>
         /\ SpecCeilMul(BDiv(a.height, SpecMin(a.target_size, a.height)),
                        a.scale).v = <<>>

\* C10: a returned tuple has tile_width >= 1 and tile_height >= 1, and its
\* grid lies inside the image: columns * tile_width <= width and rows *
\* tile_height <= height; an input that gives a zero tile dimension panics.
C10_GridInsideImage ==
    /\ (fn = "calculate_dimensions" /\ pc = "ret") =>
          /\ ret[3] # <<>>
          /\ ret[4] # <<>>
          /\ BLe(BMul(ret[1], ret[3]), args.width)
          /\ BLe(BMul(ret[2], ret[4]), args.height)
    /\ (fn = "calculate_dimensions" /\ pc # "call" /\ ZeroTile(args)) => pc = "panic"

C10_Witness ==
    /\ pc = "panic"
    /\ args.dimension = "Width"
    /\ args.scale = ScaleTwo
    /\ args.target_size = BN(100)
    /\ args.width = BN(100)
    /\ args.height = BN(512)
    /\ ~args.border

----------------------------------------------------------------------------
(* Claims about rgb_to_ansi, under SpecRgb.                                *)

\* The colour tags in palette order (index 0 first).
Tags ==
    <<"black", "red", "green", "yellow", "blue", "magenta", "cyan", "white",
      "bright_black", "bright_red", "bright_green", "bright_yellow",
      "bright_blue", "bright_magenta", "bright_cyan", "bright_white">>

\* The squared Euclidean distance of (r, g, b) to palette entry i (0..15).
SqDist(r, g, b, i) ==
    (r - vga_colors[i + 1][1]) ^ 2 + (g - vga_colors[i + 1][2]) ^ 2
        + (b - vga_colors[i + 1][3]) ^ 2

\* Entry i is at the least distance and has the lowest index of those that are.
IsNearest(r, g, b, i) ==
    /\ \A j \in 0..15 : SqDist(r, g, b, i) <= SqDist(r, g, b, j)
    /\ \A j \in 0..(i - 1) : SqDist(r, g, b, j) > SqDist(r, g, b, i)

\* C3: the text is tagged with the palette entry at the least squared
\* distance, the lowest index among ties; the sentinel (index 7, i32::MAX)
\* never decides and the `normal` arm is never taken; each palette entry's own
\* RGB maps to its own tag, and (0, 0, 88) maps to blue.
C3_NearestPaletteEntry ==
    (fn = "rgb_to_ansi" /\ pc = "ret") =>
        /\ \E i \in 0..15 :
              /\ IsNearest(args.r, args.g, args.b, i)
              /\ ret.fgcolor = Tags[i + 1]
              /\ ret.smallest_distance_index = i
              /\ ret.smallest_distance = SqDist(args.r, args.g, args.b, i)
        /\ ret.smallest_distance < I32Max
        /\ ret.fgcolor # "normal"
        /\ ret.input = args.input
        /\ \A i \in 0..15 :
              <<args.r, args.g, args.b>> = vga_colors[i + 1] => ret.fgcolor = Tags[i + 1]
        /\ <<args.r, args.g, args.b>> = <<0, 0, 88>> => ret.fgcolor = "blue"

\* (85, 0, 0) is as far from black as from red: the lower index wins.
C3_Witness ==
    /\ pc = "ret"
    /\ <<args.r, args.g, args.b>> = <<85, 0, 0>>
    /\ SqDist(85, 0, 0, 0) = SqDist(85, 0, 0, 1)
    /\ ret.fgcolor = "black"

----------------------------------------------------------------------------
(* Claims about range, under SpecRange.                                    *)

\* The i-th result of next() (i = 1, 2, ..) is as expected: Some(v) for the
\* first count calls, None after them.
IsResult(i, count, v) ==
    rets[i] = IF BLe(BN(i), count) THEN Some(v) ELSE None

ForwardValue(i) == BAdd(args.start, BN(i - 1))
ReverseValue(i) == IF BLe(BN(i), args.end) THEN BSub(args.end, BN(i)) ELSE <<>>

InRange(v) == BLe(args.start, v) /\ BLt(v, args.end)

\* C4: for start <= end, range(start, end, false) yields start, start + 1,
\* .., end - 1 in this order, then None at every further call; nothing
\* outside [start, end) is yielded.
C4_ForwardYieldsStartToEnd ==
    (fn = "range" /\ pc # "call" /\ ~args.rev /\ BLe(args.start, args.end)) =>
        /\ pc = "iter"
        /\ \A i \in 1..Len(rets) :
              IsResult(i, BSub(args.end, args.start), ForwardValue(i))
        /\ \A i \in 1..Len(rets) : rets[i].some => InRange(rets[i].v)

C4_Witness ==
    /\ pc = "iter"
    /\ ~args.rev
    /\ args.start = BN(1)
    /\ args.end = BN(3)
    /\ rets = <<Some(BN(1)), Some(BN(2)), None, None>>

\* C5: for start <= end, range(start, end, true) yields end - 1, end - 2, ..,
\* start in this order, then None at every further call; also for start = 0,
\* where the cursor wraps around after the last element, and for
\* start = end = 0, where nothing is yielded.
C5_ReverseYieldsEndToStart ==
    (fn = "range" /\ pc # "call" /\ args.rev /\ BLe(args.start, args.end)) =>
        /\ pc = "iter"
        /\ \A i \in 1..Len(rets) :
              IsResult(i, BSub(args.end, args.start), ReverseValue(i))
        /\ \A i \in 1..Len(rets) : rets[i].some => InRange(rets[i].v)

\* The cursor has wrapped around to u32::MAX after yielding 0.
C5_Witness ==
    /\ pc = "iter"
    /\ args.rev
    /\ args.start = <<>>
    /\ args.end = BN(2)
    /\ rets = <<Some(BN(1)), Some(<<>>), None, None>>
    /\ r_start = U32Max

\* C6 (as claimed): range(start, end, rev) with end < start is rejected: no
\* iterator is produced and nothing is yielded.
C6_InvalidRangeRejected ==
    (fn = "range" /\ BLt(args.end, args.start)) =>
        /\ pc \in {"call", "panic"}
        /\ \A i \in 1..Len(rets) : ~rets[i].some

----------------------------------------------------------------------------
(* Claims about map_range, under SpecMap.                                  *)

IsFinite(x) == x.k = "fin"

\* The exact value z = <<s, m, e>> is an f64 (the operation did not round):
\* the nearest f64 is finite and its difference to z is zero.
IsExact(z) ==
    /\ IsFinite(RoundExact(z))
    /\ ExactAdd(RoundExact(z), [k |-> "fin", s |-> 1 - z[1], m |-> z[2], e |-> z[3]])[2] = <<>>

FiniteRanges(a) ==
    /\ IsFinite(a.from_range[1]) /\ IsFinite(a.from_range[2])
    /\ IsFinite(a.to_range[1]) /\ IsFinite(a.to_range[2])
    /\ ~FEq(a.from_range[1], a.from_range[2])

\* x + y is an f64: a sum with a non-zero term below 2^-64 of the other
\* needs more than 53 bits.
IsExactSum(x, y) ==
    \/ x.m = <<>>
    \/ y.m = <<>>
    \/ ~FNegligible(x, y) /\ ~FNegligible(y, x) /\ IsExact(ExactAdd(x, y))

\* to_range.1 - to_range.0 and (from_range.1 - from_range.0) times it are
\* computed without rounding.
ExactSlope(a) ==
    /\ IsExactSum(a.to_range[2], FNeg(a.to_range[1]))
    /\ IsFinite(FSub(a.from_range[2], a.from_range[1]))
    /\ IsExact(ExactMul(FSub(a.from_range[2], a.from_range[1]),
                        FSub(a.to_range[2], a.to_range[1])))

\* C9 (as claimed): for a1 # a0, map_range maps a0 to b0 and a1 to b1
\* exactly.
C9_EndsMapToEnds ==
    (fn = "map_range" /\ pc = "ret" /\ FiniteRanges(args)) =>
        /\ args.value = args.from_range[1] => FEq(ret, args.to_range[1])
        /\ args.value = args.from_range[2] => FEq(ret, args.to_range[2])

\* C9 (amended): for finite ranges with a1 # a0, map_range maps a0 to b0
\* exactly whenever b1 - b0 does not overflow, and a1 to b1 exactly whenever
\* b1 - b0 and (a1 - a0) * (b1 - b0) are computed without rounding (as for
\* integer ends of moderate size), also for inverted ranges; nothing is
\* clamped: on (0, 10) -> (0, 20), 2 maps to 4, 21 to 42 and -1 to -2.
C9_EndsMapToEndsWhenExact ==
    (fn = "map_range" /\ pc = "ret" /\ FiniteRanges(args)) =>
        /\ (/\ args.value = args.from_range[1]
            /\ IsFinite(FSub(args.to_range[2], args.to_range[1])))
              => FEq(ret, args.to_range[1])
        /\ (args.value = args.from_range[2] /\ ExactSlope(args))
              => FEq(ret, args.to_range[2])
        /\ (args.from_range = <<F(0), F(10)>> /\ args.to_range = <<F(0), F(20)>>) =>
              /\ args.value = F(2) => ret = F(4)
              /\ args.value = F(21) => ret = F(42)
              /\ args.value = F(-1) => ret = F(-2)

\* An inverted pair of ranges, mapped at a1.
C9_Witness ==
    /\ pc = "ret"
    /\ args.from_range = <<F(10), F(0)>>
    /\ args.to_range = <<F(20), F(1)>>
    /\ args.value = F(0)
    /\ ExactSlope(args)
    /\ ret = F(1)

====
